---- MODULE Spec2Model ----
(***************************************************************************)
(* A state-machine model of gtfstoosm's relation-building pipeline         *)
(* (gtfstoosm/convert.py, gtfstoosm/osm.py, gtfstoosm/utils.py).           *)
(*                                                                         *)
(* One OSMRelationBuilder is modelled.  Its operations build_relations and *)
(* build_route_masters run as sequences of steps; every HTTP request to    *)
(* the stop index (Overpass) or the map matcher (Valhalla) is one step     *)
(* whose response is chosen by the environment.                            *)
(***************************************************************************)
EXTENDS Integers, Sequences, FiniteSets, TLC

VARIABLES
    \* ---- inputs of the run ----
    gtfs_data,          \* the feed tables: [routes, trips, stops]
    opts,               \* the builder's constructor arguments
    script,             \* the operations the caller has still to call, in order
    hash_seed,          \* hash(ref) & 0x7FFFFFFF of each route ref hashed so far
    \* ---- OSMRelationBuilder fields ----
    relations,          \* self.relations
    new_stops,          \* self.new_stops
    nodes,              \* self.nodes
    document,           \* the elements written to the output file, in order
    \* ---- control ----
    pc,                 \* where the running operation stands
    running,            \* the operation called last, None before the first call
    calls,              \* operations that have returned normally, in order
    exc,                \* the exception that ended the running operation
    \* ---- locals of _process_routes ----
    todo_routes,        \* route groups not yet iterated
    route_info,         \* the routes row of the current group
    trip_sequences,     \* deduplicated trips still to process
    stop_locations,     \* of the current pattern
    stop_objects,       \* of the current pattern
    osm_way_ids,        \* of the current pattern
    \* ---- locals of the resolvers ----
    retry_count,        \* of the resolver call in progress
    response,           \* what the resolver's last request came back with
    \* ---- locals of build_route_masters ----
    unique_routes,      \* rows still to iterate
    master,             \* the OSMRelation under construction
    \* ---- functions called on their own ----
    call                \* the last call of a function: its name, arguments, result

vars == <<gtfs_data, opts, script, hash_seed, relations, new_stops, nodes,
          document, pc, running, calls, exc, todo_routes, route_info, trip_sequences, stop_locations,
          stop_objects, osm_way_ids, retry_count, response, unique_routes, master, call>>

-----------------------------------------------------------------------------
(* Bounds of the model *)

\* trips in the feed
MaxTrips == 2
\* largest value hash(route_ref) & 0x7FFFFFFF % max_int takes in the model,
\* and largest value random.randint draws
MaxId == 2
\* edges in one map-matching response
MaxEdges == 1
\* trips in a list given to deduplicate_trips
MaxDedupLen == 3

\* calls of the builder's operations by one caller
MaxCalls == 3

\* edges in a response given to _get_route_ways on its own
MaxEdgeList == 5

(* Program constants *)

\* max_retries of _get_stop_objects
StopMaxRetries == 3
\* max_retries default of _get_route_ways
WayMaxRetries == 3
\* search_radius default of OSMRelationBuilder
DefaultSearchRadius == 10

\* Python's None
None == "None"
\* a parameter the caller did not pass
Missing == "<missing>"

-----------------------------------------------------------------------------
(* Sequence helpers *)

Range(s) == {s[i] : i \in 1..Len(s)}

Last(s) == s[Len(s)]

\* sequences over S of length 0..n
SeqsUpTo(S, n) == UNION {[1..k -> S] : k \in 0..n}

\* dict.update: the entries of new win over those of old
DictUpdate(old, new) == new @@ old

\* the largest r with r*r <= n
Isqrt(n) == CHOOSE r \in 0..n : r * r <= n /\ (r + 1) * (r + 1) > n

-----------------------------------------------------------------------------
(* gtfstoosm/utils.py *)

\* hash(text) & 0x7FFFFFFF, then % max_int with max_int = 2**31 - 1.  Python
\* salts str hashes per process: hash_seed[text] is this process's
\* hash(text) & 0x7FFFFFFF.
string_to_unique_int(text) ==
    hash_seed[text] % 2147483647

RECURSIVE dedup_loop(_, _, _)
dedup_loop(trips, seen_stops, unique_trips) ==
    IF trips = <<>> THEN unique_trips
    ELSE LET trip == Head(trips)
             stops_tuple == trip.stops
         IN  IF stops_tuple \notin seen_stops
             THEN dedup_loop(Tail(trips), seen_stops \cup {stops_tuple},
                             Append(unique_trips, trip))
             ELSE dedup_loop(Tail(trips), seen_stops, unique_trips)

\* a variant that takes the stops of a trip as a set
dedup_by_stop_set(trips) ==
    LET as_set(t) == [t EXCEPT !.stops = Range(t.stops)]
        kept == dedup_loop([i \in 1..Len(trips) |-> as_set(trips[i])], {}, <<>>)
    IN  [i \in 1..Len(kept) |-> trips[kept[i].trip_id]]

\* a variant that drops only the first repeated trip
RECURSIVE dedup_first_only_loop(_, _)
dedup_first_only_loop(trips, seen_stops) ==
    IF trips = <<>> THEN <<>>
    ELSE IF Head(trips).stops \in seen_stops THEN Tail(trips)
    ELSE <<Head(trips)>>
         \o dedup_first_only_loop(Tail(trips), seen_stops \cup {Head(trips).stops})

dedup_first_only(trips) == dedup_first_only_loop(trips, {})

deduplicate_trips(trips) == dedup_loop(trips, {}, <<>>)

\* a variant that answers on the latitude axis when the deltas are equal
direction_ties_to_latitude(start_coordinate, end_coordinate) ==
    LET lat_diff == end_coordinate[1] - start_coordinate[1]
        lon_diff == end_coordinate[2] - start_coordinate[2]
    IN  IF lat_diff >= lon_diff
        THEN IF start_coordinate[1] < end_coordinate[1] THEN "Northbound" ELSE "Soutbound"
        ELSE IF start_coordinate[2] < end_coordinate[2] THEN "Eastbound" ELSE "Westbound"

\* coordinates are <<lat, lon>> pairs
calculate_direction(start_coordinate, end_coordinate) ==
    LET start_latitude  == start_coordinate[1]
        start_longitude == start_coordinate[2]
        end_latitude    == end_coordinate[1]
        end_longitude   == end_coordinate[2]
        lat_diff == end_latitude - start_latitude
        lon_diff == end_longitude - start_longitude
    IN  IF lat_diff > lon_diff
        THEN IF start_latitude < end_latitude THEN "Northbound" ELSE "Soutbound"
        ELSE IF start_longitude < end_longitude THEN "Eastbound" ELSE "Westbound"

\* format_name: strip, "_" -> " ", title-case and abbreviate each part
\* (atlus), escape & < >.  Given on the long names the feeds of the model use.
format_name(name) ==
    CASE name = "alpha_line"   -> "Alpha Line"
      [] name = " beta street" -> "Beta St"
      [] OTHER                 -> name

-----------------------------------------------------------------------------
(* gtfstoosm/osm.py *)

MemberTypes == {"node", "way", "relation"}

RelationMember(type, ref, role) == [type |-> type, ref |-> ref, role |-> role]

OSMRelation(id, tags, members) == [id |-> id, tags |-> tags, members |-> members]

OSMNode(id, lat, lon, tags) == [id |-> id, lat |-> lat, lon |-> lon, tags |-> tags]

\* OSMElement.add_tag(key, value) on a tag mapping: the new mapping, and the
\* exception raised (the method has no raise statement)
add_tag(tags, key, value) ==
    IF value # None /\ value # ""
    THEN [raised |-> None, tags |-> (key :> value) @@ tags]
    ELSE [raised |-> None, tags |-> tags]

\* OSMRelation.add_member(osm_type, ref, role) on a member list.  role has no
\* default: a call that passes none fails with TypeError before the body runs.
\* The result is the new member list, or the exception raised.
add_member(members, osm_type, ref, role) ==
    IF role = Missing
    THEN [raised |-> "TypeError", members |-> members]
    ELSE IF osm_type \notin MemberTypes
    THEN [raised |-> "ValueError", members |-> members]
    ELSE [raised |-> None,
          members |-> Append(members, RelationMember(osm_type, ref, role))]


-----------------------------------------------------------------------------
(* String helpers (Python str methods used by convert.py) *)

\* sub in s
Contains(s, sub) ==
    \E i \in 1..(Len(s) + 1) :
        i + Len(sub) - 1 <= Len(s) /\ SubSeq(s, i, i + Len(sub) - 1) = sub

RECURSIVE LStrip(_, _)
LStrip(s, ch) ==
    IF Len(s) > 0 /\ SubSeq(s, 1, 1) = ch THEN LStrip(SubSeq(s, 2, Len(s)), ch) ELSE s

RECURSIVE RStrip(_, _)
RStrip(s, ch) ==
    IF Len(s) > 0 /\ SubSeq(s, Len(s), Len(s)) = ch
    THEN RStrip(SubSeq(s, 1, Len(s) - 1), ch) ELSE s

\* s.strip(ch): ch removed from both ends
Strip(s, ch) == RStrip(LStrip(s, ch), ch)

-----------------------------------------------------------------------------
(* gtfstoosm/convert.py: table queries of _process_routes *)

\* The routes table is read by position: row[0] route_id, row[2]
\* route_short_name, row[3] route_long_name, row[5] route_type, row[7]
\* route_color.  The model names the columns.

\* routes after the route_types filter and the route_ref_pattern filter.
\* opts.route_types is a set, empty for None and for []: `if self.route_types`
\* takes both as false.
routes_to_process ==
    LET by_type == IF opts.route_types # {}
                   THEN SelectSeq(gtfs_data.routes,
                                  LAMBDA r : r.route_type \in opts.route_types)
                   ELSE gtfs_data.routes
    IN  IF opts.route_ref_pattern # None
        THEN SelectSeq(by_type, LAMBDA r : Contains(r.route_id, opts.route_ref_pattern))
        ELSE by_type

RECURSIVE InsertTrip(_, _)
InsertTrip(sorted, t) ==
    IF sorted = <<>> THEN <<t>>
    ELSE IF t.trip_id < Head(sorted).trip_id THEN <<t>> \o sorted
    ELSE <<Head(sorted)>> \o InsertTrip(Tail(sorted), t)

RECURSIVE SortByTripId(_)
SortByTripId(ts) ==
    IF ts = <<>> THEN <<>>
    ELSE InsertTrip(SortByTripId(SubSeq(ts, 1, Len(ts) - 1)), Last(ts))

\* trips joined with stop_times (a trip row carries its stop_times' stop ids
\* in stop_sequence order; the inner join leaves out a trip that has none),
\* kept when their route is processed, in trip_id order
route_trip_stops ==
    SortByTripId(SelectSeq(gtfs_data.trips,
        LAMBDA t : /\ t.stops # <<>>
                   /\ t.route_id \in {r.route_id : r \in Range(routes_to_process)}))

\* the Trip objects of one route group
TripsOfRoute(route_ref) ==
    SelectSeq(route_trip_stops, LAMBDA t : t.route_id = route_ref)

\* _get_stop_locations: the stops rows of stop_ids, in the order of stop_ids;
\* the inner join leaves out an id the stops table does not hold
RECURSIVE _get_stop_locations(_, _)
_get_stop_locations(stop_ids, stops) ==
    IF stop_ids = <<>> THEN <<>>
    ELSE LET rows == SelectSeq(stops, LAMBDA r : r.stop_id = Head(stop_ids))
         IN  [i \in 1..Len(rows) |->
                 [stop_id |-> rows[i].stop_id, lat |-> rows[i].stop_lat,
                  lon |-> rows[i].stop_lon, name |-> rows[i].stop_name]]
             \o _get_stop_locations(Tail(stop_ids), stops)

\* _calculate_distance: the haversine distance in metres.  Coordinates of the
\* model are whole metres north and east of a local origin, where the
\* great-circle distance is the planar one; along a meridian it is exact.
_calculate_distance(lat1, lon1, lat2, lon2) ==
    Isqrt((lat2 - lat1) * (lat2 - lat1) + (lon2 - lon1) * (lon2 - lon1))

_get_osm_route_type(gtfs_route_type) ==
    CASE gtfs_route_type = 0  -> "tram"
      [] gtfs_route_type = 1  -> "subway"
      [] gtfs_route_type = 2  -> "train"
      [] gtfs_route_type = 3  -> "bus"
      [] gtfs_route_type = 4  -> "ferry"
      [] gtfs_route_type = 5  -> "trolleybus"
      [] gtfs_route_type = 6  -> "cable_car"
      [] gtfs_route_type = 7  -> "gondola"
      [] gtfs_route_type = 11 -> "trolleybus"
      [] gtfs_route_type = 12 -> "monorail"
      [] OTHER                -> "bus"

\* a variant that never finds the stop in the list
is_stop_duplicate_never(stops, new_stop) == FALSE

is_stop_duplicate(stops, new_stop) ==
    \E i \in 1..Len(stops) : stops[i].id = new_stop.id


-----------------------------------------------------------------------------
(* gtfstoosm/convert.py: _get_stop_objects *)

\* a variant of the inner loop that takes the first node within max_distance
closest_first_in_range(stop_row, pool, max_distance, best) ==
    LET near == SelectSeq(pool, LAMBDA n :
                    _calculate_distance(stop_row.lat, stop_row.lon, n.lat, n.lon)
                        <= max_distance)
    IN  IF near = <<>> THEN best
        ELSE <<[closest_node |-> near[1],
                min_distance |-> _calculate_distance(stop_row.lat, stop_row.lon,
                                                     near[1].lat, near[1].lon)]>>

\* the inner loop over the pool: the nearest node within max_distance, the
\* first of several equally near.  best is <<>> while closest_node is None
\* (min_distance infinite), else one record of closest_node and min_distance.
RECURSIVE closest_loop(_, _, _, _)
closest_loop(stop_row, pool, max_distance, best) ==
    IF pool = <<>> THEN best
    ELSE LET osm_node == Head(pool)
             distance == _calculate_distance(stop_row.lat, stop_row.lon,
                                             osm_node.lat, osm_node.lon)
         IN  IF (best = <<>> \/ distance < best[1].min_distance)
                /\ distance <= max_distance
             THEN closest_loop(stop_row, Tail(pool), max_distance,
                      <<[closest_node |-> osm_node, min_distance |-> distance]>>)
             ELSE closest_loop(stop_row, Tail(pool), max_distance, best)

\* a variant of list.remove that leaves the list as it is
ListKeep(list, x) == list

\* list.remove: the first equal element is taken out
RECURSIVE ListRemove(_, _)
ListRemove(list, x) ==
    IF list = <<>> THEN <<>>
    ELSE IF Head(list) = x THEN Tail(list)
    ELSE <<Head(list)>> \o ListRemove(Tail(list), x)

\* the placeholder node of a stop row
NewStop(stop_row) ==
    OSMNode(-1 * stop_row.stop_id, stop_row.lat, stop_row.lon,
            [k \in {"name", "public_transport", "highway"} |->
                CASE k = "name"             -> stop_row.name
                  [] k = "public_transport" -> "platform"
                  [] k = "highway"          -> "bus_stop"])

\* the matching loop over the input stops.  OSMNode validates its tags as
\* str: a stop row without a name raises there, which ends the loop with
\* what was matched before it.
RECURSIVE match_loop(_, _, _, _, _, _)
match_loop(stops, all_osm_nodes, add_missing, max_distance, osm_elements, stops_out) ==
    IF stops = <<>>
    THEN [osm_elements |-> osm_elements, new_stops |-> stops_out, raised |-> FALSE]
    ELSE LET stop_row == Head(stops)
             best == closest_loop(stop_row, all_osm_nodes, max_distance, <<>>)
         IN  IF best # <<>>
             THEN match_loop(Tail(stops), ListRemove(all_osm_nodes, best[1].closest_node),
                             add_missing, max_distance,
                             Append(osm_elements, best[1].closest_node), stops_out)
             ELSE IF ~add_missing
             THEN match_loop(Tail(stops), all_osm_nodes, add_missing, max_distance,
                             osm_elements, stops_out)
             ELSE IF stop_row.name = None
             THEN [osm_elements |-> osm_elements, new_stops |-> stops_out,
                   raised |-> TRUE]
             ELSE LET new_stop == NewStop(stop_row)
                  IN  match_loop(Tail(stops), all_osm_nodes, add_missing, max_distance,
                                 Append(osm_elements, new_stop),
                                 IF ~is_stop_duplicate(stops_out, new_stop)
                                 THEN Append(stops_out, new_stop)
                                 ELSE stops_out)

\* the batch check after the retry loop: the negative-id elements whose id
\* new_stops does not hold yet are appended, each id once
RECURSIVE batch_loop(_, _)
batch_loop(osm_elements, stops_out) ==
    IF osm_elements = <<>> THEN stops_out
    ELSE LET element == Head(osm_elements)
         IN  IF element.id < 0 /\ element.id \notin {x.id : x \in Range(stops_out)}
             THEN batch_loop(Tail(osm_elements), Append(stops_out, element))
             ELSE batch_loop(Tail(osm_elements), stops_out)

\* a variant that leaves self.new_stops as it was before the call
StopObjectsKeepNewStops(osm_elements, stops_out, add_missing) ==
    [osm_elements |-> osm_elements, new_stops |-> new_stops]

\* what _get_stop_objects leaves when its retry loop ends with osm_elements
\* collected and stops_out in self.new_stops
StopObjectsResult(osm_elements, stops_out, add_missing) ==
    [osm_elements |-> osm_elements,
     new_stops |-> IF add_missing THEN batch_loop(osm_elements, stops_out)
                   ELSE stops_out]

-----------------------------------------------------------------------------
(* gtfstoosm/convert.py: _get_route_ways *)

\* a variant of the edges loop that takes every way id once
RECURSIVE edges_loop_unique(_, _)
edges_loop_unique(edges, route_ways) ==
    IF edges = <<>> THEN route_ways
    ELSE LET edge == Head(edges)
         IN  IF "way_id" \in DOMAIN edge /\ edge.way_id \notin Range(route_ways)
             THEN edges_loop_unique(Tail(edges), Append(route_ways, edge.way_id))
             ELSE edges_loop_unique(Tail(edges), route_ways)

\* an edge of the response is a dict that may hold the key way_id
RECURSIVE edges_loop(_, _)
edges_loop(edges, route_ways) ==
    IF edges = <<>> THEN route_ways
    ELSE LET edge == Head(edges)
         IN  IF "way_id" \in DOMAIN edge
                /\ (route_ways = <<>> \/ edge.way_id # Last(route_ways))
             THEN edges_loop(Tail(edges), Append(route_ways, edge.way_id))
             ELSE edges_loop(Tail(edges), route_ways)


-----------------------------------------------------------------------------
(* gtfstoosm/convert.py: relation assembly *)

\* a run of add_member calls with one type and one role, one per ref, ended
\* by the first call that raises
RECURSIVE add_members(_, _, _, _)
add_members(members, osm_type, refs, role) ==
    IF refs = <<>> THEN [raised |-> None, members |-> members]
    ELSE LET r == add_member(members, osm_type, Head(refs), role)
         IN  IF r.raised # None THEN r
             ELSE add_members(r.members, osm_type, Tail(refs), role)

\* self.relation_tags is a mapping, empty for None and for {}:
\* `if self.relation_tags` takes both as false
\* a variant where the computed tags win over self.relation_tags
KeepComputedTags(tags) ==
    IF DOMAIN opts.relation_tags # {} THEN DictUpdate(opts.relation_tags, tags)
    ELSE tags

WithRelationTags(tags) ==
    IF DOMAIN opts.relation_tags # {} THEN DictUpdate(tags, opts.relation_tags)
    ELSE tags

\* a route_color that is None or "" is false in `if route_info[7] and ...`
HasColour(route_color) ==
    /\ route_color # None
    /\ route_color # ""
    /\ Len(Strip(route_color, "#")) \in {3, 6}

\* route_tags of _process_routes
RouteTags(info, direction) ==
    LET computed ==
            [k \in {"type", "public_transport:version", "route", "ref", "name"} |->
                CASE k = "type"  -> "route"
                  [] k = "public_transport:version" -> "2"
                  [] k = "route" -> _get_osm_route_type(info.route_type)
                  [] k = "ref"   -> info.route_short_name
                  [] k = "name"  ->
                        Strip("Route " \o info.route_short_name \o " "
                              \o format_name(info.route_long_name) \o " "
                              \o direction, " ")]
        coloured ==
            IF HasColour(info.route_color)
            THEN DictUpdate(computed, "colour" :> ("#" \o Strip(info.route_color, "#")))
            ELSE computed
    IN  WithRelationTags(coloured)

\* route_master_tags of build_route_masters; every routes row has the key
\* route_color
RouteMasterTags(unique_route) ==
    WithRelationTags(
        [k \in {"type", "route_master", "ref", "name", "route_color"} |->
            CASE k = "type"         -> "route_master"
              [] k = "route_master" -> "bus"
              [] k = "ref"          -> unique_route.route_id
              [] k = "name"         ->
                    Strip("Route " \o unique_route.route_id \o " "
                          \o unique_route.route_long_name, " ")
              [] k = "route_color"  -> "#" \o unique_route.route_color])

\* the relation of one pattern with its members, or the exception of the
\* add_member call that raised
BuildRouteRelation(id, tags, stops, way_ids) ==
    LET with_stops == add_members(<<>>, "node", [i \in 1..Len(stops) |-> stops[i].id],
                                  "platform")
        with_ways  == IF with_stops.raised # None THEN with_stops
                      ELSE add_members(with_stops.members, "way", way_ids, Missing)
    IN  [raised |-> with_ways.raised,
         relation |-> OSMRelation(id, tags, with_ways.members)]

\* the master of one routes row with its members, or the exception
BuildMaster(id, tags, ref) ==
    LET variants == SelectSeq(relations, LAMBDA route :
                        "ref" \in DOMAIN route.tags /\ route.tags["ref"] = ref)
        with_members == add_members(<<>>, "relation",
                            [i \in 1..Len(variants) |-> variants[i].id], Missing)
    IN  [raised |-> with_members.raised,
         relation |-> OSMRelation(id, tags, with_members.members)]


-----------------------------------------------------------------------------
(* The inputs of a run *)

RouteA == [route_id |-> "A", route_short_name |-> "A",
           route_long_name |-> "alpha_line", route_type |-> 3,
           route_color |-> "FF0000"]
RouteB == [route_id |-> "B", route_short_name |-> "7",
           route_long_name |-> " beta street", route_type |-> 1,
           route_color |-> None]

RoutesTables == {<<RouteA, RouteB>>}

RouteIds == {"A", "B"}

Stop1 == [stop_id |-> 1, stop_lat |-> 0, stop_lon |-> 0, stop_name |-> "First"]
Stop2 == [stop_id |-> 2, stop_lat |-> 20, stop_lon |-> 0, stop_name |-> "Second"]
Stop2Unnamed == [stop_id |-> 2, stop_lat |-> 20, stop_lon |-> 0, stop_name |-> None]

StopsTables == {<<Stop1, Stop2>>, <<Stop1, Stop2Unnamed>>}

\* the stop sequences a trip's stop_times give
StopSeqs == {<<>>, <<2>>, <<1, 2>>}

\* trips tables of n rows: trip ids 1..n, any route, any stop sequence of seqs
TripsTables(n, seqs) ==
    {[i \in 1..n |-> [trip_id |-> i, route_id |-> f[i][1],
                      shape_id |-> 10 + i, stops |-> f[i][2]]] :
        f \in [1..n -> RouteIds \X seqs]}

\* the feeds whose trips have their stop sequences in seqs
FeedsOver(seqs) ==
    {[routes |-> r, trips |-> t, stops |-> s] :
        r \in RoutesTables,
        t \in UNION {TripsTables(n, seqs) : n \in 0..MaxTrips},
        s \in StopsTables}

Feeds == FeedsOver(StopSeqs)

NoTags == [k \in {} |-> ""]

\* the defaults of OSMRelationBuilder.__init__
DefaultOptions ==
    [exclude_stops |-> FALSE, exclude_routes |-> FALSE,
     add_missing_stops |-> FALSE, route_types |-> {},
     search_radius |-> DefaultSearchRadius, route_direction |-> FALSE,
     route_ref_pattern |-> None, relation_tags |-> NoTags]

OptionChoices ==
    {[exclude_stops |-> es, exclude_routes |-> er, add_missing_stops |-> ams,
      route_types |-> rt, search_radius |-> DefaultSearchRadius,
      route_direction |-> rd, route_ref_pattern |-> pat, relation_tags |-> tags] :
        es \in BOOLEAN, er \in BOOLEAN, ams \in BOOLEAN,
        rt \in {{}, {3}}, rd \in BOOLEAN, pat \in {None, "A"},
        tags \in {NoTags, ("network" :> "Net") @@ ("name" :> "X")}}

\* the builders of the model: the default one and those with one argument
\* given
Options ==
    {o \in OptionChoices :
        Cardinality({f \in DOMAIN o : o[f] # DefaultOptions[f]}) <= 1}

\* convert_gtfs_to_osm
ConvertScript == <<"build_relations", "build_route_masters", "write_to_file">>

Scripts == {ConvertScript}

\* the nodes the stop index knows near the stops of the model
Candidate101 == [id |-> 101, lat |-> 4, lon |-> 0, tags |-> NoTags]
Candidate102 == [id |-> 102, lat |-> 10, lon |-> 0, tags |-> NoTags]

\* the element lists of a status-200 response: any of the nodes, in any order
ElementLists ==
    {<<>>, <<Candidate101>>, <<Candidate102>>,
     <<Candidate101, Candidate102>>, <<Candidate102, Candidate101>>}

\* what one request to the stop index can come back with: a response with a
\* status code (and, for 200, its elements), or an exception (a transport
\* error, a body that is no JSON, an element without id, lat or lon)
OverpassOutcomes ==
    {[kind |-> "response", status_code |-> 200, elements |-> e] : e \in ElementLists}
    \cup {[kind |-> "response", status_code |-> c, elements |-> <<>>] :
             c \in {429, 504, 500}}
    \cup {[kind |-> "exception", status_code |-> 0, elements |-> <<>>]}

WayIds == {7}

Edges == {[way_id |-> w] : w \in WayIds} \cup {NoTags}

\* what one request to the map matcher can come back with: a body with the
\* field edges, a body without it, or an exception
ValhallaOutcomes ==
    {[kind |-> "edges", edges |-> e] : e \in SeqsUpTo(Edges, MaxEdges)}
    \cup {[kind |-> k, edges |-> <<>>] : k \in {"no_edges", "exception"}}

TypeOK ==
    /\ pc \in {"idle", "routes", "pattern", "overpass", "valhalla", "assemble",
               "masters", "raised"}
    /\ retry_count \in 0..StopMaxRetries
    /\ Len(relations) <= MaxTrips * MaxCalls
    /\ DOMAIN hash_seed \subseteq RouteIds
    /\ \A r \in DOMAIN hash_seed : hash_seed[r] \in 0..MaxId

\* no request was answered
NoResponse == [kind |-> None, status_code |-> 0]

\* no function was called on its own yet
NoCall == [fn |-> None, args |-> <<>>, result |-> <<>>]

\* the state after OSMRelationBuilder.__init__, for a feed, a builder and a
\* caller
InitWith(feeds, options, scripts) ==
    /\ gtfs_data \in feeds
    /\ opts \in options
    \* a stop's name is read only when its placeholder is synthesized
    /\ (\E i \in 1..Len(gtfs_data.stops) : gtfs_data.stops[i].stop_name = None)
           => opts.add_missing_stops
    /\ script \in scripts
    /\ hash_seed = [r \in {} |-> 0]
    /\ relations = <<>>
    /\ new_stops = <<>>
    /\ nodes = <<>>
    /\ document = <<>>
    /\ pc = "idle"
    /\ running = None
    /\ calls = <<>>
    /\ exc = None
    /\ todo_routes = {}
    /\ route_info = <<>>
    /\ trip_sequences = <<>>
    /\ stop_locations = <<>>
    /\ stop_objects = <<>>
    /\ osm_way_ids = <<>>
    /\ retry_count = 0
    /\ response = NoResponse
    /\ unique_routes = <<>>
    /\ master = <<>>
    /\ call = NoCall

Init == InitWith(Feeds, Options, Scripts)

-----------------------------------------------------------------------------
(* The operations *)

inputs == <<gtfs_data, opts>>

control == <<script, running>>

outputs == <<nodes, document>>

route_locals == <<todo_routes, route_info, trip_sequences, stop_locations,
                  stop_objects, osm_way_ids>>

master_locals == <<unique_routes, master>>

\* the locals of a call are gone when it has returned or raised
DropRouteLocals ==
    /\ todo_routes' = {}
    /\ route_info' = <<>>
    /\ trip_sequences' = <<>>
    /\ stop_locations' = <<>>
    /\ stop_objects' = <<>>
    /\ osm_way_ids' = <<>>
    /\ retry_count' = 0

DropMasterLocals ==
    /\ unique_routes' = <<>>
    /\ master' = <<>>

\* an exception leaves the running operation and reaches the caller
Raise(e) ==
    /\ pc' = "raised"
    /\ exc' = e

\* the caller's next call is op
Called(op) ==
    /\ pc = "idle"
    /\ script # <<>>
    /\ Head(script) = op
    /\ script' = Tail(script)
    /\ running' = op

\* op returns to the caller
Return(op) ==
    /\ pc' = "idle"
    /\ calls' = Append(calls, op)

\* build_relations is called: _process_routes filters the routes and groups
\* the joined trips by route_id
BuildRelations ==
    /\ Called("build_relations")
    /\ pc' = "routes"
    /\ todo_routes' = {t.route_id : t \in Range(route_trip_stops)}
    /\ UNCHANGED <<inputs, call, response, outputs, hash_seed, relations, new_stops, calls, exc,
                   route_info, trip_sequences, stop_locations, stop_objects,
                   osm_way_ids, retry_count, master_locals>>

\* the loop over the route groups (group_by without maintain_order yields
\* them in no fixed order): the next group's Trip objects are deduplicated.
\* The hash of the route ref, which bounds the identifiers drawn for the
\* route, is fixed by its first use.
NextRoute ==
    /\ pc = "routes"
    /\ \E route_ref \in todo_routes :
        /\ todo_routes' = todo_routes \ {route_ref}
        /\ route_info' = <<SelectSeq(routes_to_process,
                                     LAMBDA r : r.route_id = route_ref)[1]>>
        /\ trip_sequences' = deduplicate_trips(TripsOfRoute(route_ref))
        /\ IF route_ref \in DOMAIN hash_seed
           THEN UNCHANGED hash_seed
           ELSE \E h \in 0..MaxId : hash_seed' = (route_ref :> h) @@ hash_seed
    /\ pc' = "pattern"
    /\ UNCHANGED <<inputs, call, response, outputs, control, relations, new_stops, calls, exc,
                   stop_locations, stop_objects, osm_way_ids, retry_count, master_locals>>

\* every route group is done: build_relations returns
ReturnBuildRelations ==
    /\ pc = "routes"
    /\ todo_routes = {}
    /\ Return("build_relations")
    /\ DropRouteLocals
    /\ UNCHANGED <<inputs, call, response, outputs, control, hash_seed, relations, new_stops, exc,
                   master_locals>>

\* after the stops of a pattern: its ways are resolved unless exclude_routes
ToWays ==
    /\ osm_way_ids' = <<>>
    /\ retry_count' = 0
    /\ pc' = IF ~opts.exclude_routes THEN "valhalla" ELSE "assemble"

\* the loop over the unique patterns of a route: the next pattern's stop
\* locations are looked up and _get_stop_objects is entered, which returns
\* [] at once for no stops
NextPattern ==
    /\ pc = "pattern"
    /\ IF trip_sequences = <<>>
       THEN /\ pc' = "routes"
            /\ UNCHANGED <<trip_sequences, stop_locations, stop_objects,
                           osm_way_ids, retry_count>>
       ELSE LET trip_sequence == Head(trip_sequences)
                locations == _get_stop_locations(trip_sequence.stops, gtfs_data.stops)
            IN  /\ trip_sequences' = Tail(trip_sequences)
                /\ stop_locations' = locations
                /\ stop_objects' = <<>>
                /\ IF ~opts.exclude_stops /\ locations # <<>>
                   THEN /\ pc' = "overpass"
                        /\ retry_count' = 0
                        /\ osm_way_ids' = <<>>
                   ELSE ToWays
    /\ UNCHANGED <<inputs, call, response, outputs, control, hash_seed, relations, new_stops,
                   calls, exc, todo_routes, route_info, master_locals>>

\* a variant that retries after every status but 200
retryable_not_ok(status_code) == status_code # 200

\* the statuses after which _get_stop_objects asks again
retryable(status_code) == status_code \in {429, 504}

\* a variant of the retry test that allows one request more
retry_once_more(count, max_retries) == count <= max_retries + 1

\* the test after retry_count += 1 in _get_stop_objects: another request
retry_stops(count, max_retries) == count <= max_retries

\* a variant of the retry test that tests after the increment
retry_after_increment(count, max_retries) == count + 1 <= max_retries + 1

\* the test before retry_count += 1 in _get_route_ways: another request
retry_ways(count, max_retries) == count < max_retries

\* _get_stop_objects leaves its retry loop with osm_elements collected
LeaveStopLoop(osm_elements, stops_out) ==
    LET res == StopObjectsResult(osm_elements, stops_out, opts.add_missing_stops)
    IN  /\ stop_objects' = res.osm_elements
        /\ new_stops' = res.new_stops
        /\ osm_way_ids' = <<>>
        /\ retry_count' = 0
        /\ pc' = IF ~opts.exclude_routes THEN "valhalla" ELSE "assemble"

\* one pass of the retry loop of _get_stop_objects: a request and what follows
\* it, up to the next request or to the return
OverpassRequest ==
    /\ pc = "overpass"
    /\ \E outcome \in OverpassOutcomes :
        /\ response' = [kind |-> outcome.kind, status_code |-> outcome.status_code]
        /\ IF outcome.kind = "exception"
           THEN LeaveStopLoop(<<>>, new_stops)
           ELSE IF outcome.status_code = 200
           THEN LET m == match_loop(stop_locations, outcome.elements,
                                    opts.add_missing_stops, opts.search_radius,
                                    <<>>, new_stops)
                IN  LeaveStopLoop(m.osm_elements, m.new_stops)
           ELSE IF retryable(outcome.status_code)
           THEN IF retry_stops(retry_count + 1, StopMaxRetries)
                THEN /\ retry_count' = retry_count + 1
                     /\ UNCHANGED <<pc, stop_objects, new_stops, osm_way_ids>>
                ELSE LeaveStopLoop(<<>>, new_stops)
           ELSE LeaveStopLoop(<<>>, new_stops)
    /\ UNCHANGED <<inputs, call, outputs, control, hash_seed, relations, calls, exc,
                   todo_routes, route_info, trip_sequences, stop_locations,
                   master_locals>>

\* one pass of the retry loop of _get_route_ways
ValhallaRequest ==
    /\ pc = "valhalla"
    /\ \E outcome \in ValhallaOutcomes :
        /\ response' = [kind |-> outcome.kind, status_code |-> 0]
        /\ IF outcome.kind = "edges"
           THEN /\ osm_way_ids' = edges_loop(outcome.edges, <<>>)
                /\ pc' = "assemble"
                /\ retry_count' = 0
           ELSE IF retry_ways(retry_count, WayMaxRetries)
           THEN /\ retry_count' = retry_count + 1
                /\ UNCHANGED <<pc, osm_way_ids>>
           ELSE /\ osm_way_ids' = <<>>
                /\ pc' = "assemble"
                /\ retry_count' = 0
    /\ UNCHANGED <<inputs, call, outputs, control, hash_seed, relations, new_stops,
                   calls, exc, todo_routes, route_info, trip_sequences,
                   stop_locations, stop_objects, master_locals>>

\* a variant that puts the new relation in front
relations_prepend(rels, relation) == <<relation>> \o rels

\* self.relations.append(relation)
relations_append(rels, relation) == Append(rels, relation)

\* the rest of the pattern's loop body: direction, tags, identifier, members,
\* and the append to self.relations; the resolvers' responses are gone
Assemble ==
    /\ pc = "assemble"
    /\ response' = NoResponse
    /\ LET info == route_info[1]
           bound == string_to_unique_int(info.route_id)
       IN  IF opts.route_direction /\ stop_locations = <<>>
           THEN \* .row(0) of an empty frame
                Raise("OutOfBoundsError") /\ DropRouteLocals /\ UNCHANGED relations
           ELSE IF bound < 1
           THEN \* random.randint(1, 0)
                Raise("ValueError") /\ DropRouteLocals /\ UNCHANGED relations
           ELSE \E n \in 1..bound :
                LET direction ==
                        IF opts.route_direction
                        THEN calculate_direction(
                                 <<Head(stop_locations).lat, Head(stop_locations).lon>>,
                                 <<Last(stop_locations).lat, Last(stop_locations).lon>>)
                        ELSE ""
                    built == BuildRouteRelation(-1 * n, RouteTags(info, direction),
                                                stop_objects, osm_way_ids)
                IN  IF built.raised # None
                    THEN Raise(built.raised) /\ DropRouteLocals /\ UNCHANGED relations
                    ELSE /\ relations' = relations_append(relations, built.relation)
                         /\ pc' = "pattern"
                         /\ stop_locations' = <<>>
                         /\ stop_objects' = <<>>
                         /\ osm_way_ids' = <<>>
                         /\ UNCHANGED <<exc, todo_routes, route_info, trip_sequences,
                                        retry_count>>
    /\ UNCHANGED <<inputs, call, outputs, control, hash_seed, new_stops, calls,
                   master_locals>>

\* build_route_masters is called: the routes rows whose route_id is the ref
\* of a relation built so far
BuildRouteMasters ==
    /\ Called("build_route_masters")
    /\ LET made_routes == {relations[i].tags["ref"] : i \in 1..Len(relations)}
       IN  unique_routes' = SelectSeq(gtfs_data.routes,
                                      LAMBDA r : r.route_id \in made_routes)
    /\ pc' = "masters"
    /\ UNCHANGED <<inputs, call, response, outputs, hash_seed, relations, new_stops, calls, exc,
                   route_locals, retry_count, master>>

\* the loop over unique_routes: the next row's master is built and appended
NextMaster ==
    /\ pc = "masters"
    /\ unique_routes # <<>>
    /\ LET unique_route == Head(unique_routes)
       IN  IF unique_route.route_color = None
           THEN \* "#" + None
                Raise("TypeError") /\ DropMasterLocals /\ UNCHANGED relations
           ELSE \E n \in 1..MaxId :
                LET built == BuildMaster(-1 * n, RouteMasterTags(unique_route),
                                         unique_route.route_id)
                IN  IF built.raised # None
                    THEN Raise(built.raised) /\ DropMasterLocals /\ UNCHANGED relations
                    ELSE /\ relations' = relations_append(relations, built.relation)
                         /\ master' = <<built.relation>>
                         /\ unique_routes' = Tail(unique_routes)
                         /\ UNCHANGED <<pc, exc>>
    /\ UNCHANGED <<inputs, call, response, outputs, control, hash_seed, new_stops, calls,
                   route_locals, retry_count>>

\* every row is done: build_route_masters returns
ReturnBuildRouteMasters ==
    /\ pc = "masters"
    /\ unique_routes = <<>>
    /\ Return("build_route_masters")
    /\ DropMasterLocals
    /\ UNCHANGED <<inputs, call, response, outputs, control, hash_seed, relations, new_stops, exc,
                   route_locals, retry_count>>

\* an element as write_to_file writes it
Written(kind, element) == [element |-> kind, id |-> element.id]

\* a variant that writes the relations first
written_relations_first(stops, other_nodes, rels) ==
    [i \in 1..Len(rels) |-> Written("relation", rels[i])]
    \o [i \in 1..Len(stops) |-> Written("node", stops[i])]
    \o [i \in 1..Len(other_nodes) |-> Written("node", other_nodes[i])]

\* the three loops of write_to_file
written_elements(stops, other_nodes, rels) ==
    [i \in 1..Len(stops) |-> Written("node", stops[i])]
    \o [i \in 1..Len(other_nodes) |-> Written("node", other_nodes[i])]
    \o [i \in 1..Len(rels) |-> Written("relation", rels[i])]

\* write_to_file: the new stops, the nodes, then the relations; a file that
\* cannot be opened or written raises OSError
WriteToFile ==
    /\ Called("write_to_file")
    /\ \E ok \in BOOLEAN :
        IF ok
        THEN /\ document' = written_elements(new_stops, nodes, relations)
             /\ Return("write_to_file")
             /\ UNCHANGED exc
        ELSE /\ Raise("OSError")
             /\ UNCHANGED <<document, calls>>
    /\ UNCHANGED <<inputs, call, response, hash_seed, relations, new_stops, nodes, route_locals,
                   retry_count, master_locals>>

Next ==
    \/ BuildRelations
    \/ NextRoute
    \/ ReturnBuildRelations
    \/ NextPattern
    \/ OverpassRequest
    \/ ValhallaRequest
    \/ Assemble
    \/ BuildRouteMasters
    \/ NextMaster
    \/ ReturnBuildRouteMasters
    \/ WriteToFile

Spec == Init /\ [][Next]_vars

\* the runs of a builder created with add_missing_stops, on the feeds whose
\* trips all have stop_times and are of one route
InitMissing ==
    InitWith({f \in FeedsOver(StopSeqs \ {<<>>}) :
                 Cardinality({t.route_id : t \in Range(f.trips)}) <= 1},
             {o \in Options : o.add_missing_stops}, Scripts)

SpecMissing == InitMissing /\ [][Next]_vars

\* the runs of a builder created with relation_tags
InitTags == InitWith(Feeds, {o \in Options : DOMAIN o.relation_tags # {}}, Scripts)

SpecTags == InitTags /\ [][Next]_vars

\* the callers that call the three operations in any order, any number of
\* times up to MaxCalls
CallSequences ==
    SeqsUpTo({"build_relations", "build_route_masters", "write_to_file"}, MaxCalls)

\* the runs of a default builder under any such caller, on the feeds of at
\* most one trip
InitAnyOrder ==
    InitWith({f \in FeedsOver(StopSeqs \ {<<>>}) : Len(f.trips) <= 1},
             {DefaultOptions}, CallSequences)

SpecAnyOrder == InitAnyOrder /\ [][Next]_vars

-----------------------------------------------------------------------------
(* Functions called on their own *)

builder_vars == <<gtfs_data, opts, script, hash_seed, relations, new_stops, nodes,
                  document, pc, running, calls, exc, todo_routes, route_info,
                  trip_sequences, stop_locations, stop_objects, osm_way_ids,
                  retry_count, response, unique_routes, master>>

\* Trip objects: the position in the list is the trip_id
DedupStopSeqs == {<<>>, <<1, 2>>, <<2, 1>>}

DedupShapeIds == {10, 11}

TripLists ==
    UNION {{[i \in 1..k |-> [trip_id |-> i, route_id |-> "A",
                             shape_id |-> f[i][1], stops |-> f[i][2]]] :
               f \in [1..k -> DedupShapeIds \X DedupStopSeqs]} :
           k \in 0..MaxDedupLen}

\* fn(args) returned result
Calls(fn, args, result) == [fn |-> fn, args |-> args, result |-> result]

CallDeduplicateTrips ==
    /\ call = NoCall
    /\ \E trips \in TripLists :
           call' = Calls("deduplicate_trips", <<trips>>, deduplicate_trips(trips))
    /\ UNCHANGED builder_vars

\* the route_color values of a routes row
Colours == {None, "", "FF0000", "#FF0000", "0af", "GGG", "FFF#", "12345"}

\* route_tags of _process_routes for a routes row with a colour
CallRouteTags ==
    /\ call = NoCall
    /\ \E route_color \in Colours :
           call' = Calls("route_tags", <<route_color>>,
                  RouteTags([RouteA EXCEPT !.route_color = route_color], ""))
    /\ UNCHANGED builder_vars

\* a stop between the first stop and its farther candidate
Stop3 == [stop_id |-> 3, stop_lat |-> 8, stop_lon |-> 0, stop_name |-> "Third"]

\* the stops frames _get_stop_locations gives for the stop tables of the feeds
\* and for a table with two stops that share their candidates
StopFrames ==
    {_get_stop_locations(ids, table) :
        ids \in {<<1>>, <<2>>, <<1, 2>>, <<2, 1>>, <<1, 3>>, <<3, 1>>},
        table \in StopsTables \cup {<<Stop1, Stop3>>}}

\* _get_stop_objects on a builder without new stops, with a status-200
\* response of the stop index: the list it returns
CallGetStopObjects ==
    /\ call = NoCall
    /\ \E stops \in StopFrames, add_missing_stops \in BOOLEAN, elements \in ElementLists :
           call' = Calls("_get_stop_objects", <<stops, add_missing_stops, elements>>,
                  match_loop(stops, elements, add_missing_stops, DefaultSearchRadius,
                             <<>>, <<>>).osm_elements)
    /\ UNCHANGED builder_vars

\* latitudes and longitudes of the coordinates given to calculate_direction
Degrees == {0, 1, 2}

CallCalculateDirection ==
    /\ call = NoCall
    /\ \E start_coordinate \in Degrees \X Degrees, end_coordinate \in Degrees \X Degrees :
           call' = Calls("calculate_direction", <<start_coordinate, end_coordinate>>,
                  calculate_direction(start_coordinate, end_coordinate))
    /\ UNCHANGED builder_vars

\* the tags of an element before add_tag, and the arguments of add_tag
TagMappings == {NoTags, "name" :> "Test Stop", ("name" :> "Test Stop") @@ ("ref" :> "1")}

TagKeys == {"name", "ref"}

TagValues == {None, "", "Another Name"}

CallAddTag ==
    /\ call = NoCall
    /\ \E tags \in TagMappings, key \in TagKeys, value \in TagValues :
           call' = Calls("add_tag", <<tags, key, value>>, add_tag(tags, key, value))
    /\ UNCHANGED builder_vars

\* the members of a relation before add_member, and its arguments
MemberLists == {<<>>, <<RelationMember("node", 100, "platform")>>}

MemberTypeArgs == MemberTypes \cup {"area"}

MemberRefs == {7, 100}

MemberRoles == {Missing, "", "platform"}

CallAddMember ==
    /\ call = NoCall
    /\ \E members \in MemberLists, osm_type \in MemberTypeArgs, ref \in MemberRefs,
       role \in MemberRoles :
           call' = Calls("add_member", <<members, osm_type, ref, role>>,
                  add_member(members, osm_type, ref, role))
    /\ UNCHANGED builder_vars

\* dict.get(key, default)
Get(dict, key, default) == IF key \in DOMAIN dict THEN dict[key] ELSE default

\* the options dict cli.main builds from the parsed arguments
cli_options(parsed_args) ==
    [k \in {"exclude_stops", "exclude_routes", "add_missing_stops",
            "stop_search_radius", "add_route_direction", "route_ref_pattern",
            "relation_tags"} |->
        CASE k = "exclude_stops"       -> parsed_args.exclude_stops
          [] k = "exclude_routes"      -> parsed_args.exclude_routes
          [] k = "add_missing_stops"   -> parsed_args.add_missing_stops
          [] k = "stop_search_radius"  -> parsed_args.stop_search_radius
          [] k = "add_route_direction" -> parsed_args.add_route_direction
          [] k = "route_ref_pattern"   -> parsed_args.route_ref_pattern
          [] k = "relation_tags"       -> parsed_args.relation_tags]

\* the builder convert_gtfs_to_osm creates from its keyword options
convert_builder(options) ==
    [exclude_stops |-> Get(options, "exclude_stops", FALSE),
     exclude_routes |-> Get(options, "exclude_routes", FALSE),
     add_missing_stops |-> Get(options, "add_missing_stops", FALSE),
     route_types |-> {},
     search_radius |-> Get(options, "stop_search_radius", DefaultSearchRadius),
     route_direction |-> Get(options, "route_direction", FALSE),
     route_ref_pattern |-> Get(options, "route_ref_pattern", None),
     relation_tags |-> Get(options, "relation_tags", NoTags)]

\* cli.main on parsed arguments with an existing input feed: the exit code
\* when it returns before converting, else the builder of the conversion
main(parsed_args) ==
    IF parsed_args.add_missing_stops /\ parsed_args.exclude_stops
    THEN [exit_code |-> 1, builder |-> <<>>]
    ELSE IF parsed_args.exclude_stops /\ parsed_args.exclude_routes
    THEN [exit_code |-> 1, builder |-> <<>>]
    ELSE [exit_code |-> 0, builder |-> <<convert_builder(cli_options(parsed_args))>>]

\* the arguments argparse gives for the flags of the command line
ParsedArgs ==
    [exclude_stops : BOOLEAN, exclude_routes : BOOLEAN, add_missing_stops : BOOLEAN,
     stop_search_radius : {DefaultSearchRadius}, add_route_direction : BOOLEAN,
     route_ref_pattern : {None, "A"}, relation_tags : {NoTags}]

CallMain ==
    /\ call = NoCall
    /\ \E parsed_args \in ParsedArgs :
           call' = Calls("main", <<parsed_args>>, main(parsed_args))
    /\ UNCHANGED builder_vars

\* the edges of a map-matching response: with one of two way ids or without
EdgeLists ==
    SeqsUpTo({[way_id |-> 7], [way_id |-> 8], NoTags}, MaxEdgeList)

\* _get_route_ways with a first response that holds the field edges: the
\* list it returns
CallGetRouteWays ==
    /\ call = NoCall
    /\ \E edges \in EdgeLists :
           call' = Calls("_get_route_ways", <<edges>>, edges_loop(edges, <<>>))
    /\ UNCHANGED builder_vars

NextUtils ==
    \/ CallMain
    \/ CallGetRouteWays
    \/ CallAddTag
    \/ CallAddMember
    \/ CallDeduplicateTrips
    \/ CallRouteTags
    \/ CallGetStopObjects
    \/ CallCalculateDirection

\* a builder with a caller that calls none of its operations
InitUtils ==
    InitWith({f \in Feeds : f.trips = <<>> /\ f.stops = <<Stop1, Stop2>>},
             {DefaultOptions}, {<<>>})

SpecUtils == InitUtils /\ [][NextUtils]_vars

-----------------------------------------------------------------------------
(* Properties *)

\* op was called last and has returned or raised
Ended(op) == running = op /\ pc \in {"idle", "raised"}

\* op has returned
Returned(op) == op \in Range(calls)

IsRoute(relation) == relation.tags["type"] = "route"

IsMaster(relation) == relation.tags["type"] = "route_master"

\* the distinct ordered stop sequences among the trips of a route
Patterns(route_id) ==
    {t.stops : t \in {x \in Range(gtfs_data.trips) : x.route_id = route_id}}

RECURSIVE PatternCount(_)
PatternCount(routes) ==
    IF routes = <<>> THEN 0
    ELSE Cardinality(Patterns(Head(routes).route_id)) + PatternCount(Tail(routes))

\* the largest identifier magnitude the pattern in assembly can draw
IdBound == string_to_unique_int(route_info[1].route_id)

\* the members add_member gives for refs, with one type and one role
MembersOf(osm_type, refs, role) ==
    [i \in 1..Len(refs) |-> RelationMember(osm_type, refs[i], role)]

\* C1: after build_relations followed by build_route_masters have returned,
\* no two relations of the collection have the same identifier.
C1_RelationIdsUnique ==
    (Returned("build_relations") /\ Returned("build_route_masters"))
        => \A i, j \in 1..Len(relations) :
               i # j => relations[i].id # relations[j].id

\* C2: when build_relations has ended on a feed whose trips all have
\* stop_times and whose route refs hash to a positive bound, the collection
\* holds one route relation per distinct stop sequence of every route that
\* passes the filters.
C2_OneRelationPerPattern ==
    (/\ Ended("build_relations")
     /\ \A t \in Range(gtfs_data.trips) : t.stops # <<>>
     /\ \A r \in DOMAIN hash_seed : hash_seed[r] >= 1)
        => Len(SelectSeq(relations, IsRoute)) = PatternCount(routes_to_process)

\* C3: after build_relations followed by build_route_masters have returned,
\* every ref carried by a route relation is the ref of exactly one
\* route_master relation.
C3_OneMasterPerRef ==
    (Returned("build_relations") /\ Returned("build_route_masters"))
        => \A i \in 1..Len(relations) :
               IsRoute(relations[i]) =>
                   Cardinality({j \in 1..Len(relations) :
                                   /\ IsMaster(relations[j])
                                   /\ relations[j].tags["ref"] = relations[i].tags["ref"]})
                       = 1

\* C4: the step of build_route_masters that handles a routes row with a
\* colour appends a route_master whose members are the route relations with
\* that ref, in collection order, each of type relation.
C4_MasterMembers ==
    [][(/\ pc = "masters"
        /\ unique_routes # <<>>
        /\ Head(unique_routes).route_color # None)
          => LET ref == Head(unique_routes).route_id
                 variants == SelectSeq(relations, LAMBDA r :
                                 IsRoute(r) /\ r.tags["ref"] = ref)
             IN  /\ Len(relations') = Len(relations) + 1
                 /\ IsMaster(Last(relations'))
                 /\ Len(Last(relations').members) = Len(variants)
                 /\ \A i \in 1..Len(variants) :
                        /\ Last(relations').members[i].type = "relation"
                        /\ Last(relations').members[i].ref = variants[i].id]_vars

\* C6: the assembly of a pattern with resolved ways appends a relation whose
\* members are the stop nodes with role platform in stop order, then the ways
\* with the empty role in traversal order.
C6_NodesThenWays ==
    [][(pc = "assemble" /\ osm_way_ids # <<>> /\ IdBound >= 1)
          => /\ Len(relations') = Len(relations) + 1
             /\ Last(relations').members =
                    MembersOf("node", [i \in 1..Len(stop_objects) |-> stop_objects[i].id],
                              "platform")
                    \o MembersOf("way", osm_way_ids, "")]_vars

\* C7: with exclude_stops or exclude_routes, the assembly of a pattern still
\* appends one relation; it has no platform member under exclude_stops and no
\* way member under exclude_routes.
C7_ExcludedStillAppended ==
    [][(pc = "assemble" /\ (opts.exclude_stops \/ opts.exclude_routes) /\ IdBound >= 1)
          => /\ Len(relations') = Len(relations) + 1
             /\ opts.exclude_stops =>
                    \A m \in Range(Last(relations').members) : m.role # "platform"
             /\ opts.exclude_routes =>
                    \A m \in Range(Last(relations').members) : m.type # "way"]_vars

\* C8: self.new_stops never holds two nodes with the same identifier.
C8_NewStopsUnique ==
    \A i, j \in 1..Len(new_stops) : i # j => new_stops[i].id # new_stops[j].id

\* two relations have a member that is the same placeholder stop, and
\* new_stops holds two stops
C8_Witness ==
    /\ Len(new_stops) >= 2
    /\ \E i, j \in 1..Len(relations) :
        /\ i < j
        /\ \E s \in Range(new_stops) :
            /\ \E m \in Range(relations[i].members) : m.ref = s.id
            /\ \E m \in Range(relations[j].members) : m.ref = s.id

\* C9: a pattern for which the stop index gave nothing usable does not make
\* build_relations raise: its assembly appends one relation.
C9_FailuresDoNotRaise ==
    [][(/\ pc = "assemble"
        /\ ~opts.exclude_stops
        /\ stop_locations # <<>>
        /\ stop_objects = <<>>
        /\ IdBound >= 1)
          => /\ pc' # "raised"
             /\ Len(relations') = Len(relations) + 1]_vars

\* C10: every relation of the collection carries every key of
\* self.relation_tags with the value given there.
C10_RelationTagsWin ==
    \A i \in 1..Len(relations) :
        \A k \in DOMAIN opts.relation_tags :
            /\ k \in DOMAIN relations[i].tags
            /\ relations[i].tags[k] = opts.relation_tags[k]

\* a route relation whose computed name was replaced, next to a key that is
\* not computed
C10_Witness ==
    \E i \in 1..Len(relations) :
        /\ IsRoute(relations[i])
        /\ "name" \in DOMAIN opts.relation_tags
        /\ relations[i].tags["name"] = opts.relation_tags["name"]
        /\ relations[i].tags["network"] = "Net"
        /\ relations[i].tags["ref"] = "7"

\* the sub-list of the trips whose stops differ from those of every earlier
\* trip, from position i on
RECURSIVE FirstOccurrences(_, _)
FirstOccurrences(P, i) ==
    IF i > Len(P) THEN <<>>
    ELSE (IF \A j \in 1..(i - 1) : P[j].stops # P[i].stops THEN <<P[i]>> ELSE <<>>)
         \o FirstOccurrences(P, i + 1)

\* C12: deduplicate_trips(P) is the sub-list of P, in order, of the trips
\* whose ordered stops differ from the stops of every earlier trip of P.
C12_DedupFirstOccurrences ==
    call.fn = "deduplicate_trips"
        => call.result = FirstOccurrences(call.args[1], 1)

\* a list where a trip repeats the stops of an earlier one under another
\* shape id and is dropped, and a trip with the same stops in another order
\* is kept
C12_Witness ==
    /\ call.fn = "deduplicate_trips"
    /\ \E i, j \in 1..Len(call.args[1]) :
        /\ i < j
        /\ call.args[1][i].stops = call.args[1][j].stops
        /\ call.args[1][i].shape_id # call.args[1][j].shape_id
        /\ call.args[1][j] \notin Range(call.result)
    /\ \E i, j \in 1..Len(call.result) :
        /\ call.result[i].stops = <<1, 2>>
        /\ call.result[j].stops = <<2, 1>>

\* C13: deduplicate_trips(deduplicate_trips(P)) = deduplicate_trips(P).
C13_DedupIdempotent ==
    call.fn = "deduplicate_trips"
        => deduplicate_trips(call.result) = call.result

\* a list of three trips with the same stops, of which one is left
C13_Witness ==
    /\ call.fn = "deduplicate_trips"
    /\ Len(call.args[1]) = 3
    /\ Len(call.result) = 1
    /\ deduplicate_trips(call.result) = call.result

HexDigits == {"0", "1", "2", "3", "4", "5", "6", "7", "8", "9",
              "a", "b", "c", "d", "e", "f", "A", "B", "C", "D", "E", "F"}

IsHex(s) == \A i \in 1..Len(s) : SubSeq(s, i, i) \in HexDigits

\* s without one leading "#"
WithoutLeadingHash(s) ==
    IF Len(s) > 0 /\ SubSeq(s, 1, 1) = "#" THEN SubSeq(s, 2, Len(s)) ELSE s

\* C11: the route tags hold colour if and only if the route's colour, after
\* removing a leading "#", is exactly 3 or exactly 6 hexadecimal characters;
\* the value is "#" followed by that stripped string.
C11_ColourIffHex ==
    call.fn = "route_tags"
        => LET route_color == call.args[1]
               stripped == IF route_color = None THEN ""
                           ELSE WithoutLeadingHash(route_color)
           IN  /\ ("colour" \in DOMAIN call.result)
                      <=> (Len(stripped) \in {3, 6} /\ IsHex(stripped))
               /\ "colour" \in DOMAIN call.result
                      => call.result["colour"] = "#" \o stripped

\* a candidate of the response lies within the search radius of the stop row
InRange(stop_row, element) ==
    _calculate_distance(stop_row.lat, stop_row.lon, element.lat, element.lon)
        <= DefaultSearchRadius

\* C14: with add_missing_stops and a successful answer of the stop index,
\* the stop resolver returns one element per input stop, in input order: a
\* candidate in range of the stop, or, for a stop without a candidate in
\* range, the placeholder with the negated stop id.
C14_OneElementPerStop ==
    (call.fn = "_get_stop_objects" /\ call.args[2])
        => LET stops == call.args[1]
               elements == call.args[3]
           IN  /\ Len(call.result) = Len(stops)
               /\ \A i \in 1..Len(stops) :
                      IF \E e \in Range(elements) : InRange(stops[i], e)
                      THEN \/ call.result[i].id = -1 * stops[i].stop_id
                           \/ /\ call.result[i] \in Range(elements)
                              /\ InRange(stops[i], call.result[i])
                      ELSE call.result[i].id = -1 * stops[i].stop_id

\* the same for stops that all have a name
C14_Named ==
    (call.fn = "_get_stop_objects" /\ call.args[2]
        /\ \A i \in 1..Len(call.args[1]) : call.args[1][i].name # None)
        => C14_OneElementPerStop

Abs(x) == IF x < 0 THEN -x ELSE x

\* the answers of calculate_direction for south, as the code spells it or
\* spelled out
SouthAnswers == {"Soutbound", "Southbound"}

\* C15: calculate_direction answers by the axis with the larger absolute
\* delta: north or south by the sign of the latitude delta when that one is
\* larger, east or west by the sign of the longitude delta when that one is.
C15_DominantAxis ==
    call.fn = "calculate_direction"
        => LET lat_delta == call.args[2][1] - call.args[1][1]
               lon_delta == call.args[2][2] - call.args[1][2]
           IN  /\ Abs(lat_delta) > Abs(lon_delta) =>
                      IF lat_delta > 0 THEN call.result = "Northbound"
                      ELSE call.result \in SouthAnswers
               /\ Abs(lon_delta) > Abs(lat_delta) =>
                      IF lon_delta > 0 THEN call.result = "Eastbound"
                      ELSE call.result = "Westbound"

\* C16: add_tag with a key the element's tags already hold raises and leaves
\* the tags as they were; add_tag with a new key and a non-empty value adds
\* the tag.
C16_AddTagDuplicateRaises ==
    call.fn = "add_tag"
        => LET tags == call.args[1]
               key == call.args[2]
               value == call.args[3]
           IN  /\ key \in DOMAIN tags =>
                      /\ call.result.raised # None
                      /\ call.result.tags = tags
               /\ (key \notin DOMAIN tags /\ value \notin {None, ""}) =>
                      /\ call.result.raised = None
                      /\ call.result.tags = (key :> value) @@ tags

\* C17: add_member with a valid type and a ref but no role returns normally
\* and appends one member whose role is the empty string.
C17_AddMemberDefaultRole ==
    (call.fn = "add_member" /\ call.args[2] \in MemberTypes /\ call.args[4] = Missing)
        => /\ call.result.raised = None
           /\ call.result.members =
                  Append(call.args[1], RelationMember(call.args[2], call.args[3], ""))

\* C18: the builder of a conversion started by the command line has
\* route_direction enabled exactly when --add-route-direction was given.
C18_CliRouteDirection ==
    (call.fn = "main" /\ call.result.builder # <<>>)
        => call.result.builder[1].route_direction = call.args[1].add_route_direction

\* the identifiers of the elements of one kind in the document, in order
WrittenIds(kind) ==
    LET of_kind == SelectSeq(document, LAMBDA w : w.element = kind)
    IN  [i \in 1..Len(of_kind) |-> of_kind[i].id]

\* no route_master of the collection comes before a route relation; in a
\* written document every node comes before every relation, the nodes start
\* with the placeholder stops and the relations are those of the collection
\* in its order
C19_Order ==
    /\ \A i, j \in 1..Len(relations) :
           (IsMaster(relations[i]) /\ IsRoute(relations[j])) => j < i
    /\ Returned("write_to_file") =>
           /\ \A i, j \in 1..Len(document) :
                  (document[i].element = "node" /\ document[j].element = "relation")
                      => i < j
           /\ WrittenIds("node") =
                  [i \in 1..Len(new_stops) |-> new_stops[i].id]
                  \o [i \in 1..Len(nodes) |-> nodes[i].id]
           /\ WrittenIds("relation") = [i \in 1..Len(relations) |-> relations[i].id]

\* a step keeps the relations of the collection at their positions
C19_Kept ==
    /\ Len(relations') >= Len(relations)
    /\ \A i \in 1..Len(relations) : relations'[i] = relations[i]

\* C19: in the collection of a conversion run and in the document written
\* from it, route relations come before route_master relations and keep
\* their creation order, and the placeholder nodes are written before the
\* other nodes and before all relations.
C19_DocumentOrder == []C19_Order /\ [][C19_Kept]_vars

\* a written document with a placeholder node and two route relations
C19_Witness ==
    /\ Returned("write_to_file")
    /\ Len(new_stops) >= 1
    /\ Len(relations) >= 2
    /\ \A i \in 1..Len(relations) : IsRoute(relations[i])
    /\ Len(document) = Len(new_stops) + Len(relations)
    /\ document[1].id = new_stops[1].id

\* C20: when build_relations has returned, every route that passes the
\* filters and has a trip without stop_times has a route relation without
\* stop members.
C20_EmptyTripYieldsRelation ==
    Returned("build_relations")
        => \A r \in Range(routes_to_process) :
               (\E t \in Range(gtfs_data.trips) :
                    t.route_id = r.route_id /\ t.stops = <<>>)
                   => \E i \in 1..Len(relations) :
                          /\ IsRoute(relations[i])
                          /\ relations[i].tags["ref"] = r.route_short_name
                          /\ \A m \in Range(relations[i].members) : m.type # "node"

\* a step appends to the relation collection or leaves it alone, and a step
\* of write_to_file leaves the three collections alone
C21_Step ==
    /\ Len(relations') >= Len(relations)
    /\ SubSeq(relations', 1, Len(relations)) = relations
    /\ (pc = "idle" /\ running' = "write_to_file" /\ script' # script)
           => UNCHANGED <<relations, nodes, new_stops>>

\* C21: across any sequence of build_relations, build_route_masters and
\* write_to_file calls on one builder the relation collection only grows by
\* appending (the collection before a step is a prefix of the collection
\* after it), and write_to_file leaves relations, nodes and new_stops
\* unchanged.
C21_AppendOnly == [][C21_Step]_vars

\* two build_relations calls and a write_to_file call have returned and the
\* collection holds the relations of both calls
C21_Witness ==
    /\ calls = <<"build_relations", "build_relations", "write_to_file">>
    /\ Len(relations) = 2
    /\ WrittenIds("relation") = [i \in 1..Len(relations) |-> relations[i].id]

\* the distance of a candidate from a stop row
Distance(stop_row, element) ==
    _calculate_distance(stop_row.lat, stop_row.lon, element.lat, element.lon)

\* a call of the stop resolver with add_missing_stops on stops that all have
\* a name: its list has one element per stop
AlignedCall ==
    /\ call.fn = "_get_stop_objects"
    /\ call.args[2]
    /\ \A i \in 1..Len(call.args[1]) : call.args[1][i].name # None

\* the candidates still in the pool when the i-th stop is handled
PoolAt(i) ==
    {e \in Range(call.args[3]) : \A j \in 1..(i - 1) : call.result[j] # e}

\* every stop has the nearest of the candidates of its pool that are within
\* the radius (the radius itself included or not), and the placeholder when
\* there is none
NearestWithin(inclusive) ==
    LET stops == call.args[1]
    IN  /\ Len(call.result) = Len(stops)
        /\ \A i \in 1..Len(stops) :
               LET eligible ==
                       {e \in PoolAt(i) :
                           \/ Distance(stops[i], e) < DefaultSearchRadius
                           \/ inclusive /\ Distance(stops[i], e) = DefaultSearchRadius}
               IN  IF eligible = {}
                   THEN call.result[i].id = -1 * stops[i].stop_id
                   ELSE /\ call.result[i] \in eligible
                        /\ \A e \in eligible :
                               Distance(stops[i], call.result[i]) <= Distance(stops[i], e)

C23_AssignedOnce ==
    call.fn = "_get_stop_objects"
        => LET stops == call.args[1]
               elements == call.args[3]
               in_range == {e \in Range(elements) :
                               Distance(stops[1], e) <= DefaultSearchRadius}
           IN  /\ \A i, j \in 1..Len(call.result) :
                      (call.result[i].id > 0 /\ call.result[i].id = call.result[j].id)
                          => i = j
               /\ (stops # <<>> /\ in_range # {}) =>
                      /\ call.result # <<>>
                      /\ call.result[1] \in in_range
                      /\ \A e \in in_range :
                             Distance(stops[1], call.result[1]) <= Distance(stops[1], e)

\* the only candidate is in range of both stops and nearer to the second:
\* the first stop has it and the second has its placeholder
C23_Witness ==
    /\ call.fn = "_get_stop_objects"
    /\ call.args[2]
    /\ call.args[1] = _get_stop_locations(<<1, 3>>, <<Stop1, Stop3>>)
    /\ call.args[3] = <<Candidate102>>
    /\ Distance(call.args[1][2], Candidate102) < Distance(call.args[1][1], Candidate102)
    /\ call.result[1] = Candidate102
    /\ call.result[2].id = -3

\* a step of the stop resolver's retry loop: it does not raise; it is
\* followed by another request only when its response had status 429 or 504
\* and fewer than StopMaxRetries retries were made before, and never when the
\* response had status 200; the loop is entered with no retry made
C24_Step ==
    /\ (pc # "overpass" /\ pc' = "overpass") => retry_count' = 0
    /\ pc = "overpass" =>
           /\ pc' # "raised"
           /\ pc' = "overpass" =>
                  /\ response'.kind = "response"
                  /\ response'.status_code \in {429, 504}
                  /\ retry_count' = retry_count + 1
                  /\ retry_count' <= StopMaxRetries
           /\ (response'.kind = "response" /\ response'.status_code = 200)
                  => pc' # "overpass"

\* C24: the stop resolver issues a further request only after a response
\* with status 429 or 504, makes at most 3 retries (at most 4 requests per
\* call) for every sequence of responses, returns without raising when the
\* budget is exhausted, and issues no further request after a status-200
\* response.
C24_RetryBudget == [][C24_Step]_vars

\* the resolver has returned after its last request was answered with 429
\* or 504: the budget was exhausted
C24_Witness ==
    /\ pc \in {"valhalla", "assemble"}
    /\ response.kind = "response"
    /\ response.status_code \in {429, 504}
    /\ stop_objects = <<>>

\* the response of a request step is a status other than 200, 429 and 504,
\* or the request raised
FailedForGood(r) ==
    \/ r.kind = "exception"
    \/ r.kind = "response" /\ r.status_code \notin {200, 429, 504}

\* a request of the stop resolver that fails so is its last: the resolver
\* returns, without raising, the elements resolved so far (none) and leaves
\* new_stops as it was
C25_Step ==
    (pc = "overpass" /\ FailedForGood(response'))
        => /\ pc' \notin {"overpass", "raised"}
           /\ stop_objects' = <<>>
           /\ UNCHANGED <<new_stops, relations, exc>>

\* C25: when the stop-index service answers with any status other than 200,
\* 429 and 504, or the request raises a transport exception, the stop
\* resolver makes no further request in that call and returns the elements
\* resolved so far without raising.
C25_NoRetryOnOtherFailure == [][C25_Step]_vars

\* the resolver has returned after a request was answered with status 500
C25_Witness ==
    /\ pc \in {"valhalla", "assemble"}
    /\ response = [kind |-> "response", status_code |-> 500]
    /\ stop_objects = <<>>

\* the way ids of the edges that carry one, in edge order
CarriedWayIds(edges) ==
    LET carrying == SelectSeq(edges, LAMBDA e : "way_id" \in DOMAIN e)
    IN  [i \in 1..Len(carrying) |-> carrying[i].way_id]

\* a list with every run of adjacent equal entries reduced to one entry
RECURSIVE Collapsed(_)
Collapsed(ids) ==
    IF Len(ids) <= 1 THEN ids
    ELSE LET front == SubSeq(ids, 1, Len(ids) - 1)
         IN  IF ids[Len(ids)] = ids[Len(ids) - 1]
             THEN Collapsed(front)
             ELSE Append(Collapsed(front), ids[Len(ids)])

C27_Step ==
    /\ (pc # "valhalla" /\ pc' = "valhalla") => retry_count' = 0
    /\ pc = "valhalla" =>
           /\ pc' \in {"valhalla", "assemble"}
           /\ pc' = "valhalla" =>
                  /\ response'.kind \in {"no_edges", "exception"}
                  /\ retry_count' = retry_count + 1
                  /\ retry_count' <= WayMaxRetries
           /\ response'.kind = "edges" => pc' = "assemble"
           /\ (pc' = "assemble" /\ response'.kind # "edges") => osm_way_ids' = <<>>
           /\ UNCHANGED <<relations, exc>>

\* C27: for every sequence of map-matching outcomes (well-formed response,
\* response without the expected field, transport failure) the shape
\* resolver terminates after at most maxRetries + 1 requests, stops at the
\* first well-formed response, and always returns a list without raising.
C27_WaysTerminate == [][C27_Step]_vars

\* the resolver has returned after a request that failed: it was the last
\* of maxRetries + 1 requests
C27_Witness ==
    /\ pc = "assemble"
    /\ response.kind \in {"no_edges", "exception"}
    /\ osm_way_ids = <<>>

\* a call of calculate_direction on a move whose latitude delta and longitude
\* delta are equal in magnitude
TieCall ==
    /\ call.fn = "calculate_direction"
    /\ Abs(call.args[2][1] - call.args[1][1]) = Abs(call.args[2][2] - call.args[1][2])
    /\ call.args[2][1] # call.args[1][1]

\* C28: when the latitude delta and the longitude delta between first and
\* last stop are exactly equal in magnitude, calculate_direction answers on
\* the latitude axis: north when the latitude increases, south when it
\* decreases.
C28_TieFavoursLatitude ==
    TieCall => IF call.args[2][1] > call.args[1][1]
               THEN call.result = "Northbound"
               ELSE call.result \in SouthAnswers

\* C28 as the code has it: on deltas of equal magnitude the answer is on the
\* longitude axis (east when the longitude increases, west when it
\* decreases), except for a latitude that increases while the longitude
\* decreases, where it is north.
C28_TieFavoursLongitude ==
    TieCall => LET lat_delta == call.args[2][1] - call.args[1][1]
                   lon_delta == call.args[2][2] - call.args[1][2]
               IN  IF lat_delta > 0 /\ lon_delta < 0
                   THEN call.result = "Northbound"
                   ELSE call.result = (IF lon_delta > 0 THEN "Eastbound"
                                       ELSE "Westbound")

\* a move of one degree north and one degree east is answered with east
C28_Witness ==
    /\ TieCall
    /\ call.args = <<(<<0, 0>>), (<<1, 1>>)>>
    /\ call.result = "Eastbound"

\* the refs of the placeholder nodes that the route relations have as members
PlaceholderRefs ==
    {m.ref : m \in {m \in UNION {Range(relations[i].members) :
                                    i \in {j \in 1..Len(relations) : IsRoute(relations[j])}} :
                        m.type = "node" /\ m.ref < 0}}

\* C29: with add_missing_stops, every node member of a route relation whose
\* ref is negative refers to a node of new_stops, and a written document
\* holds a node for every such ref; also when a stop-resolution call ended
\* early on an error.
C29_PlaceholdersDefined ==
    /\ \A ref \in PlaceholderRefs : \E i \in 1..Len(new_stops) : new_stops[i].id = ref
    /\ Returned("write_to_file") =>
           \A ref \in PlaceholderRefs : ref \in Range(WrittenIds("node"))

\* the pattern has two stops, the second without a name: the resolver ended
\* at the second stop, the relation has the first stop's placeholder as its
\* only member, and the written document defines it
C29_Witness ==
    /\ Returned("write_to_file")
    /\ gtfs_data.stops = <<Stop1, Stop2Unnamed>>
    /\ \A i \in 1..Len(gtfs_data.trips) : gtfs_data.trips[i].stops = <<1, 2>>
    /\ Len(relations) = 1
    /\ PlaceholderRefs = {-1}
    /\ Len(relations[1].members) = 1
    /\ -1 \in Range(WrittenIds("node"))

====
